---- MODULE Spec2Model ----
(***************************************************************************)
(* A model of nabeken/go-jwx: the JWS and JWE header model (Set, Copy,     *)
(* Merge), the Encoded Header (UnmarshalJSON / MarshalJSON), the JWS       *)
(* MergedHeader view with LookupSignature, and the JWE Message.Decrypt     *)
(* recipient loop.                                                         *)
(*                                                                         *)
(* Go values are modelled as follows.  A string is a TLA+ string, "" its   *)
(* zero value.  A nil pointer, nil slice or nil interface is NIL.  A       *)
(* dynamically typed value (interface{}) is a record [t, s]: t the dynamic *)
(* type, s the payload.  Headers live in a heap, because a Header holds a  *)
(* pointer to its EssentialHeader and a reference to its PrivateParams map.*)
(***************************************************************************)
EXTENDS Integers, Sequences, FiniteSets, TLC

VARIABLES
  flavour,  \* "jws" or "jwe": the package whose Header is exercised
  heap,     \* [ess, pp, hdr]: EssentialHeader structs, PrivateParams maps, Headers
  last,     \* the last call on the header model, with the heap before it
  nops,     \* number of calls made so far
  merged,   \* the latest Merge whose operands were not Set since: a, b, result,
            \* and a's and b's contents when Merge was called
  enc,      \* the Encoded Header scenario (wire bytes, parsed value, re-encoding)
  sig,      \* the JWS Message scenario (signatures, last lookup)
  dec       \* the JWE Decrypt scenario (message, loop position, result)

vars == <<flavour, heap, last, nops, merged, enc, sig, dec>>

\* ------------------------------------------------------------------ bounds
MaxOps == 2
MaxMembers == 2
MaxSigs == 2
MaxRecipients == 2

\* ------------------------------------------------------------------ values
NIL == "nil"

Flavours == {"jws", "jwe"}

\* A value handed to Set as interface{}: dynamic type and payload.
Val(t, s) == [t |-> t, s |-> s]

\* The JSON keys of the essential set, as the struct tags spell them.
JwsEssentialKeys ==
  {"alg", "cty", "crit", "jwk", "jku", "kid", "typ", "x5u", "x5c", "x5t", "x5t#S256"}

JweOnlyKeys == {"enc", "zip", "apu", "apv", "epk"}

EssentialKeys(fl) ==
  IF fl = "jws" THEN JwsEssentialKeys ELSE JwsEssentialKeys \cup JweOnlyKeys

\* The zero EssentialHeader (&EssentialHeader{}).  The JWE-only fields are
\* never touched by the jws package.
ZeroEssential ==
  [ Algorithm |-> "", ContentType |-> "", Critical |-> NIL, Jwk |-> NIL,
    JwkSetURL |-> NIL, KeyID |-> "", Type |-> "", X509Url |-> NIL,
    X509CertChain |-> NIL, X509CertThumbprint |-> "",
    X509CertThumbprintS256 |-> "",
    AgreementPartyUInfo |-> "", AgreementPartyVInfo |-> "",
    ContentEncryption |-> "", Compression |-> "", EphemeralPublicKey |-> NIL ]

EmptyMap == [k \in {} |-> Val("string", "")]

MapPut(m, k, v) == [x \in DOMAIN m \cup {k} |-> IF x = k THEN v ELSE m[x]]

\* for k, v := range src { dst[k] = v }
MapOverlay(dst, src) ==
  [x \in DOMAIN dst \cup DOMAIN src |-> IF x \in DOMAIN src THEN src[x] ELSE dst[x]]

\* url.Parse: fails on a string with a malformed escape.
UrlParseOk(s) == s # "%"

SetOk(e, p) == [err |-> FALSE, e |-> e, p |-> p]
SetErr(e, p) == [err |-> TRUE, e |-> e, p |-> p]

\* ------------------------------------------------------------------ jws Header
\* jws Header.Set on the struct e and the map p; err is ErrInvalidHeaderValue.
JwsSet(e, p, key, value) ==
  CASE key = "alg" ->
         IF value.t \in {"string", "alg"}
           THEN SetOk([e EXCEPT !.Algorithm = value.s], p) ELSE SetErr(e, p)
    [] key = "cty" ->
         IF value.t = "string"
           THEN SetOk([e EXCEPT !.ContentType = value.s], p) ELSE SetErr(e, p)
    [] key = "kid" ->
         IF value.t = "string"
           THEN SetOk([e EXCEPT !.KeyID = value.s], p) ELSE SetErr(e, p)
    [] key = "typ" ->
         IF value.t = "string"
           THEN SetOk([e EXCEPT !.Type = value.s], p) ELSE SetErr(e, p)
    [] key = "x5t" ->
         IF value.t = "string"
           THEN SetOk([e EXCEPT !.X509CertThumbprint = value.s], p) ELSE SetErr(e, p)
    [] key = "x5t#256" ->
         IF value.t = "string"
           THEN SetOk([e EXCEPT !.X509CertThumbprintS256 = value.s], p) ELSE SetErr(e, p)
    [] key = "x5c" ->
         IF value.t = "strings"
           THEN SetOk([e EXCEPT !.X509CertChain = value.s], p) ELSE SetErr(e, p)
    [] key = "crit" ->
         IF value.t = "strings"
           THEN SetOk([e EXCEPT !.Critical = value.s], p) ELSE SetErr(e, p)
    [] key = "jku" ->
         IF value.t = "string" /\ UrlParseOk(value.s)
           THEN SetOk([e EXCEPT !.JwkSetURL = value.s], p) ELSE SetErr(e, p)
    [] key = "x5u" ->
         IF value.t = "string" /\ UrlParseOk(value.s)
           THEN SetOk([e EXCEPT !.X509Url = value.s], p) ELSE SetErr(e, p)
    [] OTHER -> SetOk(e, MapPut(p, key, value))

\* jws EssentialHeader.Copy: h1 (the receiver) takes these fields of h2.
JwsEssentialCopy(h1, h2) ==
  [h1 EXCEPT !.Algorithm = h2.Algorithm,
             !.ContentType = h2.ContentType,
             !.JwkSetURL = h2.JwkSetURL,
             !.KeyID = h2.KeyID,
             !.Type = h2.Type,
             !.X509Url = h2.X509Url,
             !.X509CertChain = h2.X509CertChain,
             !.X509CertThumbprint = h2.X509CertThumbprint,
             !.X509CertThumbprintS256 = h2.X509CertThumbprintS256]

\* jws EssentialHeader.Merge: h1 (the receiver) overlaid by h2's set fields.
JwsEssentialMerge(h1, h2) ==
  [h1 EXCEPT
     !.Algorithm = IF h2.Algorithm # "" THEN h2.Algorithm ELSE @,
     !.ContentType = IF h2.ContentType # "" THEN h2.ContentType ELSE @,
     !.JwkSetURL = IF h2.JwkSetURL # NIL THEN h2.JwkSetURL ELSE @,
     !.KeyID = IF h2.KeyID # "" THEN h2.KeyID ELSE @,
     !.Type = IF h2.Type # "" THEN h2.Type ELSE @,
     !.X509Url = IF h2.X509Url # NIL THEN h2.X509Url ELSE @,
     !.X509CertChain = IF h2.X509CertChain # NIL THEN h2.X509CertChain ELSE @,
     !.X509CertThumbprint =
        IF h2.X509CertThumbprint # "" THEN h2.X509CertThumbprint ELSE @,
     !.X509CertThumbprintS256 =
        IF h2.X509CertThumbprintS256 # "" THEN h2.X509CertThumbprintS256 ELSE @]

\* ------------------------------------------------------------------ jwe Header
\* buffer.Buffer accepted by apu / apv: a Buffer, a []byte or a string.
IsBufferLike(value) == value.t \in {"buffer", "bytes", "string"}

\* jwe Header.Set on the struct e and the map p.
JweSet(e, p, key, value) ==
  CASE key = "alg" ->
         IF value.t \in {"string", "alg"}
           THEN SetOk([e EXCEPT !.Algorithm = value.s], p) ELSE SetErr(e, p)
    [] key = "apu" ->
         IF IsBufferLike(value)
           THEN SetOk([e EXCEPT !.AgreementPartyUInfo = value.s], p) ELSE SetErr(e, p)
    [] key = "apv" ->
         IF IsBufferLike(value)
           THEN SetOk([e EXCEPT !.AgreementPartyVInfo = value.s], p) ELSE SetErr(e, p)
    [] key = "enc" ->
         IF value.t \in {"string", "encalg"}
           THEN SetOk([e EXCEPT !.ContentEncryption = value.s], p) ELSE SetErr(e, p)
    [] key = "cty" ->
         IF value.t = "string"
           THEN SetOk([e EXCEPT !.ContentType = value.s], p) ELSE SetErr(e, p)
    [] key = "epk" ->
         IF value.t = "epk"
           THEN SetOk([e EXCEPT !.EphemeralPublicKey = value.s], p) ELSE SetErr(e, p)
    [] key = "kid" ->
         IF value.t = "string"
           THEN SetOk([e EXCEPT !.KeyID = value.s], p) ELSE SetErr(e, p)
    [] key = "typ" ->
         IF value.t = "string"
           THEN SetOk([e EXCEPT !.Type = value.s], p) ELSE SetErr(e, p)
    [] key = "x5t" ->
         IF value.t = "string"
           THEN SetOk([e EXCEPT !.X509CertThumbprint = value.s], p) ELSE SetErr(e, p)
    [] key = "x5t#256" ->
         IF value.t = "string"
           THEN SetOk([e EXCEPT !.X509CertThumbprintS256 = value.s], p) ELSE SetErr(e, p)
    [] key = "x5c" ->
         IF value.t = "strings"
           THEN SetOk([e EXCEPT !.X509CertChain = value.s], p) ELSE SetErr(e, p)
    [] key = "crit" ->
         IF value.t = "strings"
           THEN SetOk([e EXCEPT !.Critical = value.s], p) ELSE SetErr(e, p)
    [] key = "jku" ->
         IF value.t = "string" /\ UrlParseOk(value.s)
           THEN SetOk([e EXCEPT !.JwkSetURL = value.s], p) ELSE SetErr(e, p)
    [] key = "x5u" ->
         IF value.t = "string" /\ UrlParseOk(value.s)
           THEN SetOk([e EXCEPT !.X509Url = value.s], p) ELSE SetErr(e, p)
    [] OTHER -> SetOk(e, MapPut(p, key, value))

\* jwe Header.Get, the switch: the struct field a key reads, "" for a key of
\* the default branch.
GetField(key) ==
  CASE key = "alg" -> "Algorithm"
    [] key = "apu" -> "AgreementPartyUInfo"
    [] key = "apv" -> "AgreementPartyVInfo"
    [] key = "enc" -> "ContentEncryption"
    [] key = "epk" -> "EphemeralPublicKey"
    [] key = "cty" -> "ContentType"
    [] key = "kid" -> "KeyID"
    [] key = "typ" -> "Type"
    [] key = "x5t" -> "X509CertThumbprint"
    [] key = "x5t#256" -> "X509CertThumbprintS256"
    [] key = "x5c" -> "X509CertChain"
    [] key = "crit" -> "Critical"
    [] key = "jku" -> "JwkSetURL"
    [] key = "x5u" -> "X509Url"
    [] OTHER -> ""

\* jwe Header.Get: ok is FALSE for "invalid header name".
JweGet(e, p, key) ==
  IF GetField(key) # "" THEN [ok |-> TRUE, v |-> e[GetField(key)]]
  ELSE IF key \in DOMAIN p THEN [ok |-> TRUE, v |-> p[key].s]
  ELSE [ok |-> FALSE, v |-> ""]

\* jwe EssentialHeader.Copy: every field of h2.
JweEssentialCopy(h1, h2) ==
  [h1 EXCEPT !.AgreementPartyUInfo = h2.AgreementPartyUInfo,
             !.AgreementPartyVInfo = h2.AgreementPartyVInfo,
             !.Algorithm = h2.Algorithm,
             !.ContentEncryption = h2.ContentEncryption,
             !.ContentType = h2.ContentType,
             !.Compression = h2.Compression,
             !.Critical = h2.Critical,
             !.EphemeralPublicKey = h2.EphemeralPublicKey,
             !.Jwk = h2.Jwk,
             !.JwkSetURL = h2.JwkSetURL,
             !.KeyID = h2.KeyID,
             !.Type = h2.Type,
             !.X509Url = h2.X509Url,
             !.X509CertChain = h2.X509CertChain,
             !.X509CertThumbprint = h2.X509CertThumbprint,
             !.X509CertThumbprintS256 = h2.X509CertThumbprintS256]

\* jwe EssentialHeader.Merge: h1 (the receiver) overlaid by h2's set fields.
JweEssentialMerge(h1, h2) ==
  [h1 EXCEPT
     !.AgreementPartyUInfo =
        IF h2.AgreementPartyUInfo # "" THEN h2.AgreementPartyUInfo ELSE @,
     !.AgreementPartyVInfo =
        IF h2.AgreementPartyVInfo # "" THEN h2.AgreementPartyVInfo ELSE @,
     !.Algorithm = IF h2.Algorithm # "" THEN h2.Algorithm ELSE @,
     !.ContentEncryption = IF h2.ContentEncryption # "" THEN h2.ContentEncryption ELSE @,
     !.ContentType = IF h2.ContentType # "" THEN h2.ContentType ELSE @,
     !.Compression = IF h2.Compression # "" THEN h2.Compression ELSE @,
     !.Critical = IF h2.Critical # NIL THEN h2.Critical ELSE @,
     !.EphemeralPublicKey =
        IF h2.EphemeralPublicKey # NIL THEN h2.EphemeralPublicKey ELSE @,
     !.Jwk = IF h2.Jwk # NIL THEN h2.Jwk ELSE @,
     !.JwkSetURL = IF h2.JwkSetURL # NIL THEN h2.JwkSetURL ELSE @,
     !.KeyID = IF h2.KeyID # "" THEN h2.KeyID ELSE @,
     !.Type = IF h2.Type # "" THEN h2.Type ELSE @,
     !.X509Url = IF h2.X509Url # NIL THEN h2.X509Url ELSE @,
     !.X509CertChain = IF h2.X509CertChain # NIL THEN h2.X509CertChain ELSE @,
     !.X509CertThumbprint =
        IF h2.X509CertThumbprint # "" THEN h2.X509CertThumbprint ELSE @,
     !.X509CertThumbprintS256 =
        IF h2.X509CertThumbprintS256 # "" THEN h2.X509CertThumbprintS256 ELSE @]

\* ------------------------------------------------------------------ the heap
\* A Header is a pair of references: *EssentialHeader and the PrivateParams map.
EmptyHeap == [ess |-> <<>>, pp |-> <<>>, hdr |-> <<>>]

HeaderCount(hp) == Len(hp.hdr)

\* The struct and the map a header refers to (0 is the nil *Header).
EssOf(hp, h) == hp.ess[hp.hdr[h].e]
MapOf(hp, h) == hp.pp[hp.hdr[h].p]

\* NewHeader: a fresh EssentialHeader and a fresh, empty map.  The new header
\* is number HeaderCount(hp) + 1.
NewHeader(hp) ==
  [ess |-> Append(hp.ess, ZeroEssential),
   pp  |-> Append(hp.pp, EmptyMap),
   hdr |-> Append(hp.hdr, [e |-> Len(hp.ess) + 1, p |-> Len(hp.pp) + 1])]

EssentialCopy(fl, h1, h2) ==
  IF fl = "jws" THEN JwsEssentialCopy(h1, h2) ELSE JweEssentialCopy(h1, h2)

EssentialMerge(fl, h1, h2) ==
  IF fl = "jws" THEN JwsEssentialMerge(h1, h2) ELSE JweEssentialMerge(h1, h2)

\* A Copy that takes over the source's map instead of copying its entries.
HeaderCopyShared(fl, hp, h1, h2) ==
  IF h1 = 0 \/ h2 = 0 THEN [err |-> TRUE, hp |-> hp]
  ELSE [err |-> FALSE,
        hp |-> [hp EXCEPT
                  !.ess[hp.hdr[h1].e] = EssentialCopy(fl, @, EssOf(hp, h2)),
                  !.hdr[h1].p = hp.hdr[h2].p]]

\* Header.Copy (both packages): h1 is the destination, h2 the source.
HeaderCopy(fl, hp, h1, h2) ==
  IF h1 = 0 \/ h2 = 0 THEN [err |-> TRUE, hp |-> hp]
  ELSE [err |-> FALSE,
        hp |-> [hp EXCEPT
                  !.ess[hp.hdr[h1].e] = EssentialCopy(fl, @, EssOf(hp, h2)),
                  !.pp[hp.hdr[h1].p] = MapOverlay(@, MapOf(hp, h2))]]

\* Header.Merge (both packages): h3 := NewHeader(); h3.Copy(h1);
\* h3.EssentialHeader.Merge(h2.EssentialHeader); overlay h2.PrivateParams.
\* h is the header returned, 0 with an error.
HeaderMerge(fl, hp, h1, h2) ==
  IF h2 = 0 THEN [err |-> TRUE, hp |-> hp, h |-> 0]
  ELSE LET h3 == HeaderCount(hp) + 1
           c  == HeaderCopy(fl, NewHeader(hp), h3, h1)
           m  == [c.hp EXCEPT
                    !.ess[c.hp.hdr[h3].e] = EssentialMerge(fl, @, EssOf(c.hp, h2))]
       IN IF c.err THEN [err |-> TRUE, hp |-> hp, h |-> 0]
          ELSE [err |-> FALSE,
                hp |-> [m EXCEPT !.pp[m.hdr[h3].p] = MapOverlay(@, MapOf(m, h2))],
                h |-> h3]

\* A Set that stores the raw value under its key before validating it.
HeaderSetStoreFirst(fl, hp, h, key, value) ==
  LET r == IF fl = "jws" THEN JwsSet(EssOf(hp, h), MapOf(hp, h), key, value)
                         ELSE JweSet(EssOf(hp, h), MapOf(hp, h), key, value)
  IN [err |-> r.err,
      hp |-> [hp EXCEPT !.ess[hp.hdr[h].e] = r.e,
                        !.pp[hp.hdr[h].p] = MapPut(r.p, key, value)]]

\* Header.Set through the receiver's references.
HeaderSet(fl, hp, h, key, value) ==
  LET r == IF fl = "jws" THEN JwsSet(EssOf(hp, h), MapOf(hp, h), key, value)
                         ELSE JweSet(EssOf(hp, h), MapOf(hp, h), key, value)
  IN [err |-> r.err,
      hp |-> [hp EXCEPT !.ess[hp.hdr[h].e] = r.e, !.pp[hp.hdr[h].p] = r.p]]

\* ------------------------------------------------------------------ inputs
\* Keys handed to Set: the essential names as the struct tags spell them, the
\* spelling Set and Get switch on, and a private name.
SetKeys(fl) == EssentialKeys(fl) \cup {"x5t#256", "priv"}

\* Values handed to Set for a key: one of each dynamic type the key's case
\* tells apart, and one of a type it rejects.
SetValues(fl, key) ==
  {Val("string", "a"), Val("int", "7")}
    \cup (IF key \in {"jku", "x5u"} THEN {Val("string", "%")} ELSE {})
    \cup (IF key \in {"x5c", "crit"} THEN {Val("strings", "[a]"), Val("strings", NIL)}
                                     ELSE {})
    \cup (IF key = "alg" THEN {Val("alg", "b")} ELSE {})
    \cup (IF fl = "jwe" /\ key \in {"alg", "enc"} THEN {Val("encalg", "c")} ELSE {})
    \cup (IF fl = "jwe" /\ key \in {"apu", "apv"}
            THEN {Val("buffer", "b"), Val("bytes", "c")} ELSE {})
    \cup (IF fl = "jwe" /\ key = "epk" THEN {Val("epk", "k")} ELSE {})

NoCall ==
  [op |-> "none", h |-> 0, a |-> 0, b |-> 0, key |-> "", value |-> Val("string", ""),
   err |-> FALSE, before |-> EmptyHeap]

\* What a header holds: its struct and its map, by value.
View(hp, h) == [e |-> EssOf(hp, h), p |-> MapOf(hp, h)]

NoMerge == [r |-> 0, a |-> 0, b |-> 0, va |-> <<>>, vb |-> <<>>]

IdleEnc == [pc |-> "idle"]
IdleSig == [pc |-> "idle"]
IdleDec == [pc |-> "idle"]

\* ------------------------------------------------------------------ SpecHeader
\* Two headers made by NewHeader; then Set and Merge calls in any order.
HeaderInit ==
  /\ flavour \in Flavours
  /\ heap = NewHeader(NewHeader(EmptyHeap))
  /\ last = NoCall
  /\ nops = 0
  /\ merged = NoMerge
  /\ enc = IdleEnc
  /\ sig = IdleSig
  /\ dec = IdleDec

DoSet(h, key, value) ==
  /\ nops < MaxOps
  /\ LET r == HeaderSet(flavour, heap, h, key, value)
     IN /\ heap' = r.hp
        /\ last' = [op |-> "Set", h |-> h, a |-> 0, b |-> 0, key |-> key,
                    value |-> value, err |-> r.err, before |-> heap]
  /\ merged' = IF h \in {merged.a, merged.b} THEN NoMerge ELSE merged
  /\ nops' = nops + 1
  /\ UNCHANGED <<flavour, enc, sig, dec>>

DoMerge(a, b) ==
  /\ nops < MaxOps
  /\ LET r == HeaderMerge(flavour, heap, a, b)
     IN /\ heap' = r.hp
        /\ last' = [op |-> "Merge", h |-> r.h, a |-> a, b |-> b, key |-> "",
                    value |-> Val("string", ""), err |-> r.err, before |-> heap]
        /\ merged' = IF r.err \/ a = 0 THEN merged
                      ELSE [r |-> r.h, a |-> a, b |-> b,
                            va |-> View(heap, a), vb |-> View(heap, b)]
  /\ nops' = nops + 1
  /\ UNCHANGED <<flavour, enc, sig, dec>>

HeaderNext ==
  \/ \E h \in 1..HeaderCount(heap) : \E key \in SetKeys(flavour) :
       \E value \in SetValues(flavour, key) : DoSet(h, key, value)
  \/ \E a \in 0..HeaderCount(heap), b \in 0..HeaderCount(heap) : DoMerge(a, b)

SpecHeader == HeaderInit /\ [][HeaderNext]_vars

\* ------------------------------------------------------------------ claims on the header model
\* The fields of the essential set of each package.
JwsFields ==
  {"Algorithm", "ContentType", "Critical", "Jwk", "JwkSetURL", "KeyID", "Type",
   "X509Url", "X509CertChain", "X509CertThumbprint", "X509CertThumbprintS256"}

EssentialFields(fl) ==
  IF fl = "jws" THEN JwsFields
  ELSE JwsFields \cup {"AgreementPartyUInfo", "AgreementPartyVInfo",
                       "ContentEncryption", "Compression", "EphemeralPublicKey"}

IsEmptyField(v) == v = "" \/ v = NIL

MergeCalled == last.op = "Merge" /\ ~last.err /\ last.a # 0 /\ last.b # 0

\* C1: a.Merge(b), a and b non-nil, returns a header in which every essential
\* field (crit and jwk included) non-empty in b has b's value, every essential
\* field empty in b has a's value, and the extension map is a's entries
\* overlaid by b's.
C1_MergeTakesEveryField ==
  MergeCalled =>
    LET A == View(last.before, last.a)
        B == View(last.before, last.b)
        R == View(heap, last.h)
    IN /\ \A f \in EssentialFields(flavour) :
            R.e[f] = IF IsEmptyField(B.e[f]) THEN A.e[f] ELSE B.e[f]
       /\ R.p = MapOverlay(A.p, B.p)

\* C6: no key of the essential set is a key of any header's PrivateParams.
C6_EssentialKeysNotPrivate ==
  \A h \in 1..HeaderCount(heap) :
    DOMAIN MapOf(heap, h) \cap EssentialKeys(flavour) = {}

\* The struct fields and map keys on which two views of a header differ.
ChangedFields(v1, v2) == {f \in DOMAIN ZeroEssential : v1.e[f] # v2.e[f]}

ChangedEntries(v1, v2) ==
  {k \in DOMAIN v1.p \cup DOMAIN v2.p :
     ~(k \in DOMAIN v1.p /\ k \in DOMAIN v2.p /\ v1.p[k] = v2.p[k])}

\* C7: a Set that returns ErrInvalidHeaderValue leaves every essential field
\* and the whole extension map as they were; a Set that returns nil changes at
\* most the field its key names (the field Get reads for that key) or the
\* extension entry of that key.
C7_SetAtomic ==
  last.op = "Set" =>
    LET old == View(last.before, last.h)
        new == View(heap, last.h)
    IN /\ last.err => heap = last.before
       /\ ~last.err =>
            /\ ChangedFields(old, new) \subseteq {GetField(last.key)}
            /\ ChangedEntries(old, new) \subseteq {last.key}
            /\ GetField(last.key) # "" => ChangedEntries(old, new) = {}

\* C7's case: a Set rejected on a header that already holds a field and an
\* entry.
C7_Witness ==
  /\ last.op = "Set" /\ last.err
  /\ View(heap, last.h) # [e |-> ZeroEssential, p |-> EmptyMap]

\* C9: Merge never mutates a or b, neither by the call nor by later Sets on
\* the header it returned, and that header shares neither its map nor its
\* struct with a or b.
C9_MergeLeavesOperands ==
  merged.r # 0 =>
    /\ View(heap, merged.a) = merged.va
    /\ View(heap, merged.b) = merged.vb
    /\ heap.hdr[merged.r].p \notin {heap.hdr[merged.a].p, heap.hdr[merged.b].p}
    /\ heap.hdr[merged.r].e \notin {heap.hdr[merged.a].e, heap.hdr[merged.b].e}

\* C9's case: after a Merge, a Set on the returned header stored an extension
\* entry.
C9_Witness ==
  /\ merged.r # 0
  /\ last.op = "Set" /\ last.h = merged.r /\ ~last.err
  /\ last.key \in DOMAIN MapOf(heap, merged.r)

\* ------------------------------------------------------------------ bytes, base64, JSON
\* A byte string is a sequence of numbers 0..255.  JSON text is modelled at the
\* level of its lexical tokens, one byte per token: a string literal is the
\* byte numbering it in Literals, punctuation and the space are their ASCII
\* codes.
Literals ==
  <<"alg", "enc", "kid", "typ", "zip", "p1", "p2", "a", "b", "A1", "A128GCM", "A999",
    "DEF">>

Sym == [lbrace |-> 123, rbrace |-> 125, colon |-> 58, comma |-> 44,
        space |-> 32, quote |-> 34]

LitCode(str) == CHOOSE i \in 1..Len(Literals) : Literals[i] = str
IsLit(c) == c \in 1..Len(Literals)

\* buffer.Buffer.Base64Encode: base64url without padding; the result is the
\* sequence of 6-bit digits.
RECURSIVE Base64Encode(_)
Base64Encode(bs) ==
  IF Len(bs) = 0 THEN <<>>
  ELSE IF Len(bs) = 1 THEN <<bs[1] \div 4, (bs[1] % 4) * 16>>
  ELSE IF Len(bs) = 2
    THEN <<bs[1] \div 4, (bs[1] % 4) * 16 + bs[2] \div 16, (bs[2] % 16) * 4>>
  ELSE <<bs[1] \div 4, (bs[1] % 4) * 16 + bs[2] \div 16,
         (bs[2] % 16) * 4 + bs[3] \div 64, bs[3] % 64>>
       \o Base64Encode(SubSeq(bs, 4, Len(bs)))

\* buffer.Buffer.Base64Decode; a single trailing digit is malformed.
RECURSIVE Base64Decode(_)
Base64Decode(ds) ==
  IF Len(ds) = 0 THEN [ok |-> TRUE, b |-> <<>>]
  ELSE IF Len(ds) = 1 THEN [ok |-> FALSE, b |-> <<>>]
  ELSE IF Len(ds) = 2
    THEN [ok |-> TRUE, b |-> <<ds[1] * 4 + ds[2] \div 16>>]
  ELSE IF Len(ds) = 3
    THEN [ok |-> TRUE, b |-> <<ds[1] * 4 + ds[2] \div 16,
                               (ds[2] % 16) * 16 + ds[3] \div 4>>]
  ELSE LET rest == Base64Decode(SubSeq(ds, 5, Len(ds)))
       IN [ok |-> rest.ok,
           b |-> <<ds[1] * 4 + ds[2] \div 16,
                   (ds[2] % 16) * 16 + ds[3] \div 4,
                   (ds[3] % 4) * 64 + ds[4]>> \o rest.b]

\* json.Marshal of a string: the text between quotes (the base64url alphabet
\* needs no escaping).
JsonQuote(ds) == <<Sym.quote>> \o ds \o <<Sym.quote>>

\* json.Unmarshal of a JSON string into a buffer.Buffer: strip the quotes and
\* base64url-decode.
JsonUnquoteBuffer(buf) ==
  IF Len(buf) >= 2 /\ buf[1] = Sym.quote /\ buf[Len(buf)] = Sym.quote
    THEN Base64Decode(SubSeq(buf, 2, Len(buf) - 1))
    ELSE [ok |-> FALSE, b |-> <<>>]

\* encoding/json reading an object whose values are strings: white space is
\* skipped, members are key : value separated by commas.  members keeps the
\* order of the text.
JsonParseObject(bs) ==
  LET t == SelectSeq(bs, LAMBDA c : c # Sym.space)
      n == Len(t)
      m == (n - 1) \div 4
      wellFormed ==
        /\ n >= 2 /\ t[1] = Sym.lbrace /\ t[n] = Sym.rbrace
        /\ n = 2 \/ n = 4 * m + 1
        /\ \A j \in 1..m :
             /\ IsLit(t[4 * j - 2]) /\ t[4 * j - 1] = Sym.colon /\ IsLit(t[4 * j])
             /\ j < m => t[4 * j + 1] = Sym.comma
  IN IF wellFormed /\ n > 2
       THEN [ok |-> TRUE,
             members |-> [j \in 1..m |-> [k |-> Literals[t[4 * j - 2]],
                                          v |-> Literals[t[4 * j]]]]]
     ELSE [ok |-> wellFormed, members |-> <<>>]

\* encoding/json writing members: no white space.
RECURSIVE JsonMembers(_)
JsonMembers(ms) ==
  IF Len(ms) = 0 THEN <<>>
  ELSE <<LitCode(ms[1].k), Sym.colon, LitCode(ms[1].v)>>
       \o (IF Len(ms) > 1 THEN <<Sym.comma>> ELSE <<>>)
       \o JsonMembers(Tail(ms))

JsonObject(ms) == <<Sym.lbrace>> \o JsonMembers(ms) \o <<Sym.rbrace>>

\* The string fields of EssentialHeader in declaration order with their tags
\* (omitempty), per package; the wire texts of this model hold string values
\* only.
TaggedFields(fl) ==
  IF fl = "jws"
    THEN <<[tag |-> "alg", f |-> "Algorithm"], [tag |-> "cty", f |-> "ContentType"],
           [tag |-> "kid", f |-> "KeyID"], [tag |-> "typ", f |-> "Type"],
           [tag |-> "x5t", f |-> "X509CertThumbprint"],
           [tag |-> "x5t#S256", f |-> "X509CertThumbprintS256"]>>
    ELSE <<[tag |-> "alg", f |-> "Algorithm"],
           [tag |-> "enc", f |-> "ContentEncryption"],
           [tag |-> "cty", f |-> "ContentType"], [tag |-> "zip", f |-> "Compression"],
           [tag |-> "kid", f |-> "KeyID"], [tag |-> "typ", f |-> "Type"],
           [tag |-> "x5t", f |-> "X509CertThumbprint"],
           [tag |-> "x5t#S256", f |-> "X509CertThumbprintS256"]>>

FieldOfTag(fl, tag) ==
  LET hit == SelectSeq(TaggedFields(fl), LAMBDA x : x.tag = tag)
  IN IF Len(hit) = 0 THEN "" ELSE hit[1].f

\* Keys of a map in the order encoding/json writes them (sorted).
SortedKeys(p) == SelectSeq(Literals, LAMBDA k : k \in DOMAIN p)

\* Header.MarshalJSON (emap.MergeMarshal): the struct's non-empty fields in
\* declaration order, then the map's entries in key order, as one object.
HeaderMarshalJSON(fl, h) ==
  LET ef == SelectSeq(TaggedFields(fl), LAMBDA x : h.e[x.f] # "")
      pk == SortedKeys(h.p)
  IN JsonObject([i \in 1..Len(ef) |-> [k |-> ef[i].tag, v |-> h.e[ef[i].f]]]
                \o [i \in 1..Len(pk) |-> [k |-> pk[i], v |-> h.p[pk[i]].s]])

\* jws Header.UnmarshalJSON (emap.MergeUnmarshal): a member with a tag of the
\* struct sets that field, any other member goes to PrivateParams.
RECURSIVE JwsHeaderUnmarshal(_, _)
JwsHeaderUnmarshal(h, ms) ==
  IF Len(ms) = 0 THEN [err |-> FALSE, h |-> h]
  ELSE LET f == FieldOfTag("jws", ms[1].k)
       IN JwsHeaderUnmarshal(
            IF f # "" THEN [h EXCEPT !.e[f] = ms[1].v]
            ELSE [h EXCEPT !.p = MapPut(@, ms[1].k, Val("string", ms[1].v))],
            Tail(ms))

\* The names jwe Header.UnmarshalJSON deletes from the raw map.
JweDeletedNames ==
  {"alg", "apu", "apv", "enc", "cty", "zip", "crit", "epk", "jwk", "jku", "kid",
   "typ", "x5u", "x5c", "x5t", "x5t#S256"}

\* jwe Header.UnmarshalJSON, second pass: Set every remaining member.
RECURSIVE JweSetAll(_, _)
JweSetAll(h, ms) ==
  IF Len(ms) = 0 THEN [err |-> FALSE, h |-> h]
  ELSE LET r == JweSet(h.e, h.p, ms[1].k, Val("string", ms[1].v))
       IN IF r.err THEN [err |-> TRUE, h |-> [e |-> r.e, p |-> r.p]]
          ELSE JweSetAll([e |-> r.e, p |-> r.p], Tail(ms))

\* jwe Header.UnmarshalJSON, first pass: json.Unmarshal into the struct; a
\* member with a tag of the struct sets that field.
RECURSIVE JweEssentialUnmarshal(_, _)
JweEssentialUnmarshal(e, ms) ==
  IF Len(ms) = 0 THEN e
  ELSE LET f == FieldOfTag("jwe", ms[1].k)
       IN JweEssentialUnmarshal(IF f # "" THEN [e EXCEPT ![f] = ms[1].v] ELSE e,
                                Tail(ms))

\* jwe Header.UnmarshalJSON: the struct from the tagged members, then Set for
\* the members whose name is not deleted.
JweHeaderUnmarshal(h, ms) ==
  JweSetAll([h EXCEPT !.e = JweEssentialUnmarshal(@, ms)],
            SelectSeq(ms, LAMBDA x : x.k \notin JweDeletedNames))

NewHeaderValue == [e |-> ZeroEssential, p |-> EmptyMap]

\* EncodedHeader.UnmarshalJSON: buf is a JSON string holding base64url text.
\* The jws package keeps the decoded bytes in Source; the jwe package does not.
EncodedHeaderUnmarshalJSON(fl, buf) ==
  LET b   == JsonUnquoteBuffer(buf)
      obj == JsonParseObject(b.b)
      r   == IF fl = "jws" THEN JwsHeaderUnmarshal(NewHeaderValue, obj.members)
                           ELSE JweHeaderUnmarshal(NewHeaderValue, obj.members)
  IN IF ~b.ok \/ ~obj.ok \/ r.err
       THEN [err |-> TRUE, h |-> NewHeaderValue, source |-> <<>>]
     ELSE [err |-> FALSE, h |-> r.h, source |-> IF fl = "jws" THEN b.b ELSE <<>>]

\* jws Header.Base64Encode and jwe EncodedHeader.Base64Encode: the header is
\* marshalled and encoded; Source is not read.
HeaderBase64Encode(fl, e) == Base64Encode(HeaderMarshalJSON(fl, e.h))

\* EncodedHeader.MarshalJSON (both packages).
EncodedHeaderMarshalJSON(fl, e) == JsonQuote(HeaderBase64Encode(fl, e))

\* ------------------------------------------------------------------ SpecEncoded
\* The wire texts: objects of up to MaxMembers members in any order, written
\* compactly or with a space after each colon or each comma, and a text that
\* is no object.
WireKeys == {"alg", "kid", "p1"}
WireVals == {"a", "b"}

MemberSeqs ==
  UNION {[1..n -> [k : WireKeys, v : WireVals]] : n \in 0..MaxMembers}

RECURSIVE SpacedMembers(_, _)
SpacedMembers(ms, sp) ==
  IF Len(ms) = 0 THEN <<>>
  ELSE <<LitCode(ms[1].k), Sym.colon>>
       \o (IF sp = "colon" THEN <<Sym.space>> ELSE <<>>)
       \o <<LitCode(ms[1].v)>>
       \o (IF Len(ms) > 1 THEN <<Sym.comma>> ELSE <<>>)
       \o (IF Len(ms) > 1 /\ sp = "comma" THEN <<Sym.space>> ELSE <<>>)
       \o SpacedMembers(Tail(ms), sp)

WireObjects ==
  {<<Sym.lbrace>> \o SpacedMembers(ms, sp) \o <<Sym.rbrace>> :
     ms \in MemberSeqs, sp \in {"none", "colon", "comma"}}
  \cup {<<Sym.lbrace, Sym.colon>>}

EncodedInit ==
  /\ flavour \in Flavours
  /\ \E obj \in WireObjects :
       enc = [pc |-> "wire", wire |-> JsonQuote(Base64Encode(obj)),
              h |-> NewHeaderValue, source |-> <<>>, out |-> <<>>]
  /\ heap = EmptyHeap /\ last = NoCall /\ nops = 0 /\ merged = NoMerge
  /\ sig = IdleSig /\ dec = IdleDec

idleHeader == <<heap, last, nops, merged>>

DoUnmarshalJSON ==
  /\ enc.pc = "wire"
  /\ LET r == EncodedHeaderUnmarshalJSON(flavour, enc.wire)
     IN enc' = [enc EXCEPT !.pc = IF r.err THEN "error" ELSE "parsed",
                           !.h = r.h, !.source = r.source]
  /\ UNCHANGED <<flavour, idleHeader, sig, dec>>

DoMarshalJSON ==
  /\ enc.pc = "parsed"
  /\ enc' = [enc EXCEPT !.pc = "marshalled", !.out = EncodedHeaderMarshalJSON(flavour, enc)]
  /\ UNCHANGED <<flavour, idleHeader, sig, dec>>

DoBase64Encode ==
  /\ enc.pc = "parsed"
  /\ enc' = [enc EXCEPT !.pc = "encoded", !.out = HeaderBase64Encode(flavour, enc)]
  /\ UNCHANGED <<flavour, idleHeader, sig, dec>>

EncodedNext == DoUnmarshalJSON \/ DoMarshalJSON \/ DoBase64Encode

SpecEncoded == EncodedInit /\ [][EncodedNext]_vars

\* C2: parsing wire bytes B as an Encoded Header and re-encoding the
\* unmodified result yields exactly B (MarshalJSON), i.e. exactly the base64url
\* text B carries (Base64Encode), whatever the key order and spacing of B.
C2_SourceEcho ==
  /\ enc.pc = "marshalled" => enc.out = enc.wire
  /\ enc.pc = "encoded" => JsonQuote(enc.out) = enc.wire

\* ------------------------------------------------------------------ jws Signature, MergedHeader
\* jwa.NoSignature
NoSignature == "none"

\* A Signature holds two pointers, either of which may be nil (nil TRUE); of
\* the headers only the fields the MergedHeader view reads are kept.
NilHeader == [nil |-> TRUE, KeyID |-> "", Algorithm |-> ""]

HeaderFields == [nil : {FALSE}, KeyID : {"", "k1", "k2"}, Algorithm : {"", "HS256"}]

ProtectedHeaders == {NilHeader} \cup {x \in HeaderFields : x.KeyID # "k2"}
PublicHeaders == {NilHeader} \cup HeaderFields

Signatures == [ProtectedHeader : ProtectedHeaders, PublicHeader : PublicHeaders]

\* Signature.MergedHeaders
MergedHeaders(s) ==
  [ProtectedHeader |-> s.ProtectedHeader, PublicHeader |-> s.PublicHeader]

\* MergedHeader.KeyID
MergedKeyID(h) ==
  IF ~h.ProtectedHeader.nil /\ h.ProtectedHeader.KeyID # ""
    THEN h.ProtectedHeader.KeyID
  ELSE IF ~h.PublicHeader.nil /\ h.PublicHeader.KeyID # ""
    THEN h.PublicHeader.KeyID
  ELSE ""

\* MergedHeader.Algorithm
MergedAlgorithm(h) ==
  IF ~h.ProtectedHeader.nil THEN h.ProtectedHeader.Algorithm ELSE NoSignature

\* Message.LookupSignature
LookupSignature(sigs, kid) ==
  SelectSeq(sigs, LAMBDA s : MergedKeyID(MergedHeaders(s)) = kid)

\* ------------------------------------------------------------------ SpecSignature
\* A Message of up to MaxSigs signatures; the calls read it and return.
SignatureInit ==
  /\ \E n \in 0..MaxSigs : \E sigs \in [1..n -> Signatures] :
       sig = [pc |-> "ready", sigs |-> sigs, op |-> "none", i |-> 0, kid |-> "",
              str |-> "", found |-> <<>>]
  /\ flavour = "jws"
  /\ heap = EmptyHeap /\ last = NoCall /\ nops = 0 /\ merged = NoMerge
  /\ enc = IdleEnc /\ dec = IdleDec

DoLookupSignature(kid) ==
  /\ sig.pc = "ready"
  /\ sig' = [sig EXCEPT !.op = "LookupSignature", !.kid = kid, !.i = 0, !.str = "",
                        !.found = LookupSignature(sig.sigs, kid)]
  /\ UNCHANGED <<flavour, idleHeader, enc, dec>>

DoKeyID(i) ==
  /\ sig.pc = "ready"
  /\ sig' = [sig EXCEPT !.op = "KeyID", !.i = i, !.kid = "", !.found = <<>>,
                        !.str = MergedKeyID(MergedHeaders(sig.sigs[i]))]
  /\ UNCHANGED <<flavour, idleHeader, enc, dec>>

DoAlgorithm(i) ==
  /\ sig.pc = "ready"
  /\ sig' = [sig EXCEPT !.op = "Algorithm", !.i = i, !.kid = "", !.found = <<>>,
                        !.str = MergedAlgorithm(MergedHeaders(sig.sigs[i]))]
  /\ UNCHANGED <<flavour, idleHeader, enc, dec>>

SignatureNext ==
  \/ \E kid \in {"", "k1", "k2"} : DoLookupSignature(kid)
  \/ \E i \in 1..Len(sig.sigs) : DoKeyID(i)
  \/ \E i \in 1..Len(sig.sigs) : DoAlgorithm(i)

SpecSignature == SignatureInit /\ [][SignatureNext]_vars

\* Protected-first-then-public precedence for one field of a signature whose
\* public header is present.
ProtectedFirst(s, f) ==
  IF ~s.ProtectedHeader.nil /\ s.ProtectedHeader[f] # ""
    THEN s.ProtectedHeader[f] ELSE s.PublicHeader[f]

\* C8: for a Signature (with a public header), KeyID and Algorithm of the
\* MergedHeader view are the protected header's value when that header is
\* present with the field non-empty, and the public header's value otherwise;
\* LookupSignature selects by the key id computed this way.
C8_MergedProtectedFirst ==
  /\ (sig.op = "KeyID" /\ ~sig.sigs[sig.i].PublicHeader.nil)
       => sig.str = ProtectedFirst(sig.sigs[sig.i], "KeyID")
  /\ (sig.op = "Algorithm" /\ ~sig.sigs[sig.i].PublicHeader.nil)
       => sig.str = ProtectedFirst(sig.sigs[sig.i], "Algorithm")
  /\ (sig.op = "LookupSignature"
        /\ \A j \in 1..Len(sig.sigs) : ~sig.sigs[j].PublicHeader.nil)
       => sig.found = SelectSeq(sig.sigs, LAMBDA s : ProtectedFirst(s, "KeyID") = sig.kid)

\* ------------------------------------------------------------------ jwe Message.Decrypt
\* A []byte: nil, or a (possibly empty) sequence of bytes.
NilBytes == [nil |-> TRUE, b |-> <<>>]
Bytes(b) == [nil |-> FALSE, b |-> b]

\* jwa.Deflate
Deflate == "DEF"

\* Header.Merge on header values: the two headers are put in a heap of their
\* own and the header Merge returns is read back.
MergeViews(a, b) ==
  LET hp == [ess |-> <<a.e, b.e>>, pp |-> <<a.p, b.p>>,
             hdr |-> <<[e |-> 1, p |-> 1], [e |-> 2, p |-> 2]>>]
      r  == HeaderMerge("jwe", hp, 1, 2)
  IN View(r.hp, r.h)

\* h := NewHeader(); h.Copy(src)
CopyView(src) ==
  LET hp == NewHeader([ess |-> <<src.e>>, pp |-> <<src.p>>,
                       hdr |-> <<[e |-> 1, p |-> 1]>>])
  IN View(HeaderCopy("jwe", hp, 2, 1).hp, 2)

\* BuildContentCipher: an error for an algorithm it does not know.
ContentCiphers == {"A128GCM"}
BuildContentCipherErr(alg) == alg \notin ContentCiphers

\* BuildKeyDecrypter(alg, h2, key, keysize): an error for an algorithm it does
\* not know or a key that does not fit; r.kd says what the supplied key does
\* with recipient r.
KeyAlgorithms == {"A1", "A2"}
BuildKeyDecrypterErr(alg, r) == alg \notin KeyAlgorithms \/ r.kd = "builderr"

\* KeyDecrypter.KeyDecrypt(recipient.EncryptedKey): an error, or a CEK that is
\* the message's ("good") or not ("wrong").
KeyDecrypt(r) ==
  IF r.kd = "kderr" THEN [err |-> TRUE, cek |-> ""]
  ELSE [err |-> FALSE, cek |-> IF r.kd = "goodcek" THEN "good" ELSE "wrong"]

\* The AAD the message's content was encrypted under: the base64url text of
\* the protected header's bytes.
EncryptionAAD(m) == Base64Encode(m.protectedBytes)

\* cipher.decrypt(cek, iv, ciphertext, tag, aad): authenticated decryption
\* succeeds only with the message's CEK and the AAD used to encrypt.  m.okOut
\* is the slice it returns for the plaintext, m.failOut the slice it returns
\* beside an error.
CipherDecrypt(m, cek, aad) ==
  IF cek = "good" /\ aad = EncryptionAAD(m)
    THEN [err |-> FALSE, out |-> m.okOut]
    ELSE [err |-> TRUE, out |-> m.failOut]

\* What Decrypt's compression branch writes: the bytes through flate.NewWriter,
\* i.e. a DEFLATE stream of them (here one stored block: final-block header,
\* length, complemented length, data; lengths below 256).
FlateWrite(b) == <<1, Len(b), 0, 255 - Len(b), 255>> \o b

\* One recipient iteration of Decrypt's loop, for recipient r with the base
\* header h and the AAD aad.  step is where the iteration ended.
DecryptRecipient(m, alg, h, aad, r) ==
  IF r.Header.e.Algorithm # alg
    THEN [step |-> "skipped", kdAlg |-> "", aad |-> <<>>, out |-> NilBytes]
  ELSE LET h2 == MergeViews(CopyView(h), r.Header)
           k  == KeyDecrypt(r)
           d  == CipherDecrypt(m, k.cek, aad)
       IN IF BuildKeyDecrypterErr(h2.e.Algorithm, r)
            THEN [step |-> "nodecrypter", kdAlg |-> h2.e.Algorithm, aad |-> <<>>,
                  out |-> NilBytes]
          ELSE IF k.err
            THEN [step |-> "keyerror", kdAlg |-> h2.e.Algorithm, aad |-> <<>>,
                  out |-> NilBytes]
          ELSE [step |-> IF d.err THEN "decrypterror" ELSE "decrypted",
                kdAlg |-> h2.e.Algorithm, aad |-> aad, out |-> d.out]

\* ------------------------------------------------------------------ SpecDecrypt
RECURSIVE SeqsUpTo(_, _)
SeqsUpTo(S, n) ==
  IF n = 0 THEN {<<>>}
  ELSE LET shorter == SeqsUpTo(S, n - 1)
       IN shorter \cup {Append(q, x) : q \in {y \in shorter : Len(y) = n - 1}, x \in S}

JweHeader(alg, encAlg, zip) ==
  [e |-> [ZeroEssential EXCEPT !.Algorithm = alg, !.ContentEncryption = encAlg,
                               !.Compression = zip],
   p |-> EmptyMap]

Recipients ==
  [Header : {JweHeader(a, "", "") : a \in {"", "A1", "A2"}},
   kd : {"builderr", "kderr", "wrongcek", "goodcek"}]

\* What the model varies in a Message.  aad says what the AuthenticatedData
\* field holds: nothing (NewMessage), the protected header's bytes, or other
\* bytes.  okOut is a payload, the DEFLATE stream of that payload, the empty
\* slice or the nil slice.
MessageShapes ==
  [ProtectedHeader : {JweHeader(a, c, z) :
                        a \in {"", "A1"}, c \in {"A128GCM", "A999"}, z \in {"", Deflate}},
   UnprotectedHeader : {JweHeader(a, "", "") : a \in {"", "A1"}},
   aad : {"empty", "protected", "other"},
   Recipients : SeqsUpTo(Recipients, MaxRecipients),
   okOut : {Bytes(<<104, 105>>), Bytes(FlateWrite(<<104, 105>>)), Bytes(<<>>), NilBytes},
   failOut : {NilBytes, Bytes(<<0>>)}]

\* The Message of a shape; protectedBytes are the bytes of its protected
\* header as serialized.
MessageOf(x) ==
  LET pb == HeaderMarshalJSON("jwe", x.ProtectedHeader)
  IN [ProtectedHeader |-> x.ProtectedHeader,
      UnprotectedHeader |-> x.UnprotectedHeader,
      protectedBytes |-> pb,
      AuthenticatedData |-> CASE x.aad = "empty" -> <<>>
                              [] x.aad = "protected" -> pb
                              [] OTHER -> <<LitCode("p1")>>,
      Recipients |-> x.Recipients,
      okOut |-> x.okOut,
      failOut |-> x.failOut]

NoReturn == [err |-> "", out |-> NilBytes]

DecryptInit ==
  /\ \E x \in MessageShapes :
       dec = [pc |-> "start", m |-> MessageOf(x), alg |-> "A1", h |-> NewHeaderValue,
              aad |-> <<>>, n |-> 0, plaintext |-> NilBytes, steps |-> <<>>,
              ret |-> NoReturn]
  /\ flavour = "jwe"
  /\ heap = EmptyHeap /\ last = NoCall /\ nops = 0 /\ merged = NoMerge
  /\ enc = IdleEnc /\ sig = IdleSig

\* Decrypt up to the loop: the recipients check, the base header, the AAD and
\* the content cipher.
DecryptStart ==
  /\ dec.pc = "start"
  /\ LET m == dec.m
         h == MergeViews(CopyView(m.ProtectedHeader), m.UnprotectedHeader)
     IN dec' =
          IF Len(m.Recipients) = 0
            THEN [dec EXCEPT !.pc = "done", !.ret = [err |-> "NoRecipients", out |-> NilBytes]]
          ELSE IF BuildContentCipherErr(m.ProtectedHeader.e.ContentEncryption)
            THEN [dec EXCEPT !.pc = "done", !.h = h,
                             !.aad = Base64Encode(m.AuthenticatedData),
                             !.ret = [err |-> "UnsupportedContentCipher", out |-> NilBytes]]
          ELSE [dec EXCEPT !.pc = "loop", !.h = h,
                           !.aad = Base64Encode(m.AuthenticatedData)]
  /\ UNCHANGED <<flavour, idleHeader, enc, sig>>

\* One iteration of the loop over m.Recipients.
DecryptLoop ==
  /\ dec.pc = "loop"
  /\ LET j == dec.n + 1
         s == DecryptRecipient(dec.m, dec.alg, dec.h, dec.aad, dec.m.Recipients[j])
         plaintext == IF s.step \in {"decrypted", "decrypterror"}
                        THEN s.out ELSE dec.plaintext
     IN dec' =
          IF s.step = "keyerror"
            THEN [dec EXCEPT !.pc = "done", !.n = j, !.steps = Append(@, s),
                             !.ret = [err |-> "KeyDecryptFailed", out |-> NilBytes]]
          ELSE [dec EXCEPT
                  !.pc = IF s.step = "decrypted" \/ j = Len(dec.m.Recipients)
                           THEN "after" ELSE "loop",
                  !.n = j, !.steps = Append(@, s), !.plaintext = plaintext]
  /\ UNCHANGED <<flavour, idleHeader, enc, sig>>

\* Decrypt after the loop: the plaintext == nil test and the compression
\* branch.
DecryptFinish ==
  /\ dec.pc = "after"
  /\ dec' =
       IF dec.plaintext.nil
         THEN [dec EXCEPT !.pc = "done",
                          !.ret = [err |-> "DecryptionFailed", out |-> NilBytes]]
       ELSE IF dec.h.e.Compression = Deflate
         THEN [dec EXCEPT !.pc = "done",
                          !.ret = [err |-> "", out |-> Bytes(FlateWrite(dec.plaintext.b))]]
       ELSE [dec EXCEPT !.pc = "done", !.ret = [err |-> "", out |-> dec.plaintext]]
  /\ UNCHANGED <<flavour, idleHeader, enc, sig>>

DecryptNext == DecryptStart \/ DecryptLoop \/ DecryptFinish

SpecDecrypt == DecryptInit /\ [][DecryptNext]_vars

\* ------------------------------------------------------------------ claims on Decrypt
\* The header a recipient is decrypted under:
\* merge(merge(protected, unprotected), recipient header).
EffectiveHeader(m, r) ==
  MergeViews(MergeViews(m.ProtectedHeader, m.UnprotectedHeader), r.Header)

GoodRecipients(m) == {j \in 1..Len(m.Recipients) : m.Recipients[j].kd = "goodcek"}

\* A message every recipient of which carries the caller's alg, with a known
\* content cipher, no compression, a non-empty plaintext, the protected
\* header's bytes in its AAD field, and a cipher that returns nil beside an
\* error.
PlainMessage ==
  /\ Len(dec.m.Recipients) >= 1
  /\ \A j \in 1..Len(dec.m.Recipients) :
       dec.m.Recipients[j].Header.e.Algorithm = dec.alg
  /\ ~BuildContentCipherErr(dec.m.ProtectedHeader.e.ContentEncryption)
  /\ dec.m.ProtectedHeader.e.Compression = ""
  /\ dec.m.AuthenticatedData = dec.m.protectedBytes
  /\ dec.m.okOut = Bytes(<<104, 105>>)
  /\ dec.m.failOut = NilBytes

\* C3: when the key recovers a working CEK for exactly one recipient, Decrypt
\* returns the plaintext wherever that recipient stands in the sequence; when
\* it works for no recipient, Decrypt fails with DecryptionFailed.
C3_DecryptAnyOrder ==
  (dec.pc = "done" /\ PlainMessage) =>
    /\ Cardinality(GoodRecipients(dec.m)) = 1
         => dec.ret = [err |-> "", out |-> dec.m.okOut]
    /\ GoodRecipients(dec.m) = {} => dec.ret.err = "DecryptionFailed"

RecipientFailures == {"nodecrypter", "keyerror", "decrypterror"}

\* C4: a failure while processing a recipient never aborts the call: the loop
\* goes on to the last recipient or to a successful one, and an error for
\* recipient failures is the one generic DecryptionFailed.
C4_RecipientFailureSkips ==
  (dec.pc = "done" /\ \E j \in 1..Len(dec.steps) : dec.steps[j].step \in RecipientFailures) =>
    /\ dec.n = Len(dec.m.Recipients) \/ dec.steps[dec.n].step = "decrypted"
    /\ dec.ret.err \in {"", "DecryptionFailed"}

\* C5: a recipient the loop reaches is tried exactly when its effective
\* algorithm equals the caller's alg, and it is tried under its own effective
\* header.
C5_TriedIffEffectiveAlg ==
  \A j \in 1..Len(dec.steps) :
    LET eff == EffectiveHeader(dec.m, dec.m.Recipients[j]).e.Algorithm
    IN /\ dec.steps[j].step # "skipped" <=> eff = dec.alg
       /\ dec.steps[j].step # "skipped" => dec.steps[j].kdAlg = eff

\* C10: the AAD handed to cipher.decrypt is the base64url text of the
\* message's protected header bytes, for every recipient tried.
C10_AADIsProtectedHeader ==
  \A j \in 1..Len(dec.steps) :
    dec.steps[j].step \in {"decrypted", "decrypterror"}
      => dec.steps[j].aad = Base64Encode(dec.m.protectedBytes)

\* The inverse of the DEFLATE framing: the data of a well-formed stream, an
\* error for bytes that are not one.
Inflate(b) ==
  IF /\ Len(b) >= 5
     /\ b[1] = 1 /\ b[2] = Len(b) - 5 /\ b[3] = 0 /\ b[4] = 255 - b[2] /\ b[5] = 255
    THEN [err |-> FALSE, out |-> SubSeq(b, 6, Len(b))]
    ELSE [err |-> TRUE, out |-> <<>>]

\* Decrypt returned after cipher.decrypt succeeded for the last recipient
\* reached, with a non-nil plaintext.
DecryptedNonNil ==
  /\ dec.pc = "done"
  /\ dec.n >= 1
  /\ dec.steps[dec.n].step = "decrypted"
  /\ ~dec.steps[dec.n].out.nil

\* C11: after a successful content decryption, with zip = DEF in the effective
\* header Decrypt returns the inflation of the recovered plaintext, or an error
\* when the plaintext does not inflate; with an empty zip it returns the
\* recovered plaintext unchanged.
C11_DeflateInflates ==
  DecryptedNonNil =>
    LET p   == dec.steps[dec.n].out
        zip == EffectiveHeader(dec.m, dec.m.Recipients[dec.n]).e.Compression
        inf == Inflate(p.b)
    IN /\ (zip = Deflate /\ ~inf.err) => dec.ret = [err |-> "", out |-> Bytes(inf.out)]
       /\ (zip = Deflate /\ inf.err) => dec.ret.err # ""
       /\ zip = "" => dec.ret = [err |-> "", out |-> p]

\* The first recipient for which cipher.decrypt returned without an error
\* (0 when there is none).
FirstDecrypted ==
  LET S == {j \in 1..Len(dec.steps) : dec.steps[j].step = "decrypted"}
  IN IF S = {} THEN 0 ELSE CHOOSE j \in S : \A k \in S : j <= k

\* C12: Decrypt returns without an error exactly when cipher.decrypt returned
\* without an error for some recipient, and the plaintext it then goes on with
\* is the slice that first successful call returned.
C12_SuccessIffDecrypted ==
  dec.pc = "done" =>
    /\ dec.ret.err = "" <=> FirstDecrypted # 0
    /\ dec.ret.err = "" => /\ FirstDecrypted # 0
                           /\ dec.plaintext = dec.steps[FirstDecrypted].out

\* ------------------------------------------------------------------ all scenarios
Init == HeaderInit \/ EncodedInit \/ SignatureInit \/ DecryptInit

Next ==
  \/ HeaderCount(heap) > 0 /\ HeaderNext
  \/ EncodedNext
  \/ SignatureNext
  \/ DecryptNext

Spec == Init /\ [][Next]_vars

====
